---- MODULE Spec2Model ----
(***************************************************************************)
(* Model of extract.py: the paragraph chunker (chunk_text), the model      *)
(* selector (get_available_models), the per-chunk extraction client with   *)
(* its retry loop (extract_entities_from_chunk), the model-fallback        *)
(* orchestrator (extract_entities_with_gemini), write_to_csv and main.     *)
(*                                                                         *)
(* Three specifications share the variables:                               *)
(*   SpecChunk   applies chunk_text to every bounded text and bound,       *)
(*   SpecModels  applies get_available_models to every bounded catalog,    *)
(*   Spec        runs main: model selection, the passes over the chunks,   *)
(*               the retry loop against a nondeterministic provider, and   *)
(*               the report / CSV step.                                    *)
(***************************************************************************)
EXTENDS Integers, Sequences, FiniteSets, TLC

VARIABLES
    pc,               \* position of the control flow
    text,             \* chunk_text: the input text (sequence of characters)
    max_chars,        \* chunk_text: the bound
    chunks,           \* chunk_text: the returned list of chunks
    catalog,          \* genai.list_models(): sequence of [name, gen]
    list_fails,       \* whether the catalog query raises
    available_models, \* result of get_available_models
    chunked,          \* TRUE when len(text) > 120000 (the chunking branch)
    total_chunks,     \* len(chunks) of the run (1 in the single-request branch)
    model_index,      \* index of the model being attempted (1-based)
    i,                \* number of the chunk being processed (1-based)
    attempt,          \* loop variable of the retry loop (0-based)
    chunk_entities,   \* value returned by the last extract_entities_from_chunk
    cause,            \* why the last extract_entities_from_chunk returned
    all_entities,     \* records accumulated in the current pass
    origin,           \* for each accumulated record, <<model_index, chunk>>
    returned,         \* the lists returned for the chunks of the current pass
    calls,            \* every extract_entities_from_chunk call, <<model, chunk>>
    requests,         \* generate_content requests of the current call, <<model, chunk>>
    last_request,     \* model index of the most recent generate_content request
    parsed,           \* what json.loads returned in the current call (an object as <<object>>)
    waits,            \* time.sleep durations inside the current call
    delays,           \* the inter-chunk time.sleep durations of the current pass
    result,           \* return value of extract_entities_with_gemini
    exc,              \* the exception the orchestrator's handler is looking at
    csv,              \* the output file
    report            \* what main printed about the outcome

vars == <<pc, text, max_chars, chunks, catalog, list_fails, available_models,
          chunked, total_chunks, model_index, i, attempt, chunk_entities,
          cause, all_entities, origin, returned, calls, requests,
          last_request, parsed, waits, delays, result, exc, csv,
          report>>

chunkVars == <<text, max_chars, chunks>>
catalogVars == <<catalog, list_fails>>
runVars == <<available_models, chunked, total_chunks, model_index, i, attempt,
             chunk_entities, cause, all_entities, origin, returned, calls,
             requests, last_request, parsed, waits, delays, result,
             exc, csv, report>>

----------------------------------------------------------------------------
(* Bounds of the model *)

MaxTextLen == 7      \* longest text given to chunk_text
MaxCharsBound == 8   \* largest max_chars given to chunk_text
MaxCatalog == 3      \* longest provider catalog given to get_available_models
MaxRunModels == 2    \* longest provider catalog of a run of main
MaxChunks == 2       \* largest number of chunks of a run of main

(* Program constants *)

max_retries == 3
InterChunkDelay == 5

----------------------------------------------------------------------------
(* Strings are sequences of characters; NL is the newline character. *)

NL == "\n"
Chars == {"a", NL}
Sep == <<NL, NL>>

RECURSIVE StringsUpTo(_)
StringsUpTo(n) ==
    IF n = 0 THEN {<<>>}
    ELSE LET shorter == StringsUpTo(n - 1)
         IN  shorter \cup {Append(s, c) : s \in {t \in shorter : Len(t) = n - 1}, c \in Chars}

Texts == StringsUpTo(MaxTextLen)

(* str.split('\n\n'): the pieces between the leftmost non-overlapping
   occurrences of the separator; always at least one piece. *)
SepAt(s, k) == k + 1 <= Len(s) /\ s[k] = NL /\ s[k + 1] = NL

RECURSIVE Split(_)
Split(s) ==
    IF \E k \in 1..Len(s) : SepAt(s, k)
    THEN LET k == CHOOSE k \in 1..Len(s) :
                      SepAt(s, k) /\ \A j \in 1..(k - 1) : ~SepAt(s, j)
         IN  <<SubSeq(s, 1, k - 1)>> \o Split(SubSeq(s, k + 2, Len(s)))
    ELSE <<s>>

(* The body of the loop of chunk_text for one section: st is the pair
   [chunks, current_chunk]. *)
ChunkStepNoFlush(st, section, bound) ==
    IF Len(st.current_chunk) + Len(section) < bound
    THEN [chunks |-> st.chunks, current_chunk |-> st.current_chunk \o section \o Sep]
    ELSE [chunks |-> st.chunks, current_chunk |-> section \o Sep]

ChunkStepCountSep(st, section, bound) ==
    IF Len(st.current_chunk) + Len(section) + Len(Sep) < bound
    THEN [chunks |-> st.chunks, current_chunk |-> st.current_chunk \o section \o Sep]
    ELSE [chunks |-> IF st.current_chunk # <<>>
                     THEN Append(st.chunks, st.current_chunk) ELSE st.chunks,
          current_chunk |-> section \o Sep]

ChunkStep(st, section, bound) ==
    IF Len(st.current_chunk) + Len(section) < bound
    THEN [chunks |-> st.chunks, current_chunk |-> st.current_chunk \o section \o Sep]
    ELSE [chunks |-> IF st.current_chunk # <<>>
                     THEN Append(st.chunks, st.current_chunk) ELSE st.chunks,
          current_chunk |-> section \o Sep]

RECURSIVE ChunkLoop(_, _, _, _)
ChunkLoop(sections, k, st, bound) ==
    IF k > Len(sections) THEN st
    ELSE ChunkLoop(sections, k + 1, ChunkStep(st, sections[k], bound), bound)

chunk_text(txt, bound) ==
    LET st == ChunkLoop(Split(txt), 1, [chunks |-> <<>>, current_chunk |-> <<>>], bound)
    IN  IF st.current_chunk # <<>> THEN Append(st.chunks, st.current_chunk)
        ELSE st.chunks

----------------------------------------------------------------------------
(* Model names are sequences of tokens ("models/gemini-2.0-flash" is
   <<"models", "gemini", "2.0", "flash">>); `preferred in available` is
   containment of one token sequence in another. *)

preferred_order ==
    << <<"gemini", "2.0", "flash">>,
       <<"gemini", "2.5", "flash">>,
       <<"gemini", "flash", "latest">>,
       <<"gemini", "2.0", "flash", "lite">>,
       <<"gemini", "2.5", "flash", "lite">>,
       <<"gemini", "2.5", "pro">>,
       <<"gemini", "pro", "latest">> >>

Contains(sub, s) ==
    \E k \in 1..(Len(s) - Len(sub) + 1) : SubSeq(s, k, k + Len(sub) - 1) = sub

InList(x, list) == \E k \in 1..Len(list) : list[k] = x

RECURSIVE FilterNone(_, _)
FilterNone(cat, k) ==
    IF k > Len(cat) THEN <<>>
    ELSE <<cat[k].name>> \o FilterNone(cat, k + 1)

RECURSIVE FilterGenerate(_, _)
FilterGenerate(cat, k) ==
    IF k > Len(cat) THEN <<>>
    ELSE (IF cat[k].gen THEN <<cat[k].name>> ELSE <<>>) \o FilterGenerate(cat, k + 1)

(* for preferred in preferred_order: for available in available_models: ... *)
RECURSIVE SortLoop(_, _, _, _)
SortLoop(avail, p, a, sorted) ==
    IF p > Len(preferred_order) THEN sorted
    ELSE IF a > Len(avail) THEN SortLoop(avail, p + 1, 1, sorted)
    ELSE IF Contains(preferred_order[p], avail[a]) /\ ~InList(avail[a], sorted)
         THEN SortLoop(avail, p, a + 1, Append(sorted, avail[a]))
         ELSE SortLoop(avail, p, a + 1, sorted)

(* for available in available_models: if available not in sorted_models *)
RECURSIVE RemainingLoop(_, _, _)
RemainingLoop(avail, a, sorted) ==
    IF a > Len(avail) THEN sorted
    ELSE IF ~InList(avail[a], sorted)
         THEN RemainingLoop(avail, a + 1, Append(sorted, avail[a]))
         ELSE RemainingLoop(avail, a + 1, sorted)

SortByPreference(avail) == RemainingLoop(avail, 1, SortLoop(avail, 1, 1, <<>>))

get_available_models_IgnoresFailure(cat, fails) ==
    SortByPreference(FilterGenerate(cat, 1))

get_available_models(cat, fails) ==
    IF fails THEN <<>> ELSE SortByPreference(FilterGenerate(cat, 1))

ModelNames ==
    { <<"models", "gemini", "2.0", "flash">>,
      <<"models", "gemini", "2.0", "flash", "lite">>,
      <<"models", "gemini", "2.5", "pro">>,
      <<"models", "gemma", "3">>,
      <<"models", "embedding", "001">> }

ModelEntries == [name : ModelNames, gen : BOOLEAN]

RECURSIVE SeqsUpTo(_, _)
SeqsUpTo(S, n) ==
    IF n = 0 THEN {<<>>}
    ELSE LET shorter == SeqsUpTo(S, n - 1)
         IN  shorter \cup {Append(s, x) : s \in {t \in shorter : Len(t) = n - 1}, x \in S}

Catalogs == SeqsUpTo(ModelEntries, MaxCatalog)

----------------------------------------------------------------------------
(* JSON values of a completion.  An item is a JSON object over the keys
   pan / relation / entity (Missing marks an absent key) or a JSON number. *)

Missing == "<missing>"
Dict(p, r, e) == [kind |-> "dict", pan |-> p, relation |-> r, entity |-> e, num |-> 0]
Number(n) == [kind |-> "number", pan |-> Missing, relation |-> Missing,
              entity |-> Missing, num |-> n]

RecA == Dict("AAUFM6247N", "PAN_Of", "Mr. Agarwal")
RecB == Dict("AAACM9185B", "PAN_Of", "MAHESHWARI FINANCIAL SERVICES PVT. LTD.")
RecEmptyPan == Dict("", "PAN_Of", "Mr. Agarwal")
RecNoEntity == Dict("AAUFM6247N", "PAN_Of", Missing)
EmptyDict == Dict(Missing, Missing, Missing)
Seven == Number(7)

(* The JSON arrays and the single JSON values a completion may parse to. *)
ParsedLists == { <<>>, <<RecA>>, <<RecB, RecA>>, <<RecEmptyPan>>, <<RecNoEntity>>, <<Seven>> }
ParsedObjects == { RecA, EmptyDict }

(* finish_reason codes other than 1 (STOP): 2 = MAX_TOKENS, 3 = SAFETY, 4 = RECITATION *)
AbnormalFinish == {2, 3, 4}

(* Python truthiness of one parsed JSON value *)
Truthy(item) ==
    IF item.kind = "dict"
    THEN item.pan # Missing \/ item.relation # Missing \/ item.entity # Missing
    ELSE item.num # 0

(* dict.get(key, '') *)
Get(item, key) ==
    LET v == CASE key = "pan" -> item.pan
               [] key = "relation" -> item.relation
               [] OTHER -> item.entity
    IN  IF v = Missing THEN "" ELSE v

(* Return values of extract_entities_with_gemini: None or a list *)
Pending == [tag |-> "pending", list |-> <<>>]
None == [tag |-> "None", list |-> <<>>]
ListValue(l) == [tag |-> "list", list |-> l]

(* The output file: absent, or a sequence of lines *)
Absent == [exists |-> FALSE, lines |-> <<>>]
OldFile == [exists |-> TRUE, lines |-> << <<"old">> >>]
Header == <<"Entity (PAN)", "Relation", "Entity (Person)">>

RECURSIVE Pow2(_)
Pow2(n) == IF n = 0 THEN 1 ELSE 2 * Pow2(n - 1)

(* Provider catalogs of a run of main: the first entries of a catalog that
   lists a model without content generation, then generating models in an
   order that differs from the preference order; MaxRunModels of them
   generate. *)
RunEntries ==
    << [name |-> <<"models", "embedding", "001">>, gen |-> FALSE],
       [name |-> <<"models", "gemini", "2.5", "pro">>, gen |-> TRUE],
       [name |-> <<"models", "gemini", "2.0", "flash">>, gen |-> TRUE],
       [name |-> <<"models", "gemma", "3">>, gen |-> TRUE],
       [name |-> <<"models", "gemini", "2.0", "flash", "lite">>, gen |-> TRUE] >>

RunCatalogs ==
    {SubSeq(RunEntries, 1, n) : n \in 0..(IF MaxRunModels + 1 < Len(RunEntries)
                                          THEN MaxRunModels + 1 ELSE Len(RunEntries))}

----------------------------------------------------------------------------
(* Initial states *)

IdleChunk == text = <<>> /\ max_chars = 0 /\ chunks = <<>>

IdleRun ==
    /\ available_models = <<>>
    /\ chunked = FALSE
    /\ total_chunks = 1
    /\ model_index = 0
    /\ i = 0
    /\ attempt = 0
    /\ chunk_entities = <<>>
    /\ cause = "none"
    /\ all_entities = <<>>
    /\ origin = <<>>
    /\ returned = <<>>
    /\ calls = <<>>
    /\ requests = <<>>
    /\ last_request = 0
    /\ parsed = <<>>
    /\ waits = <<>>
    /\ delays = <<>>
    /\ result = Pending
    /\ exc = "none"
    /\ csv = Absent
    /\ report = "none"

InitChunk ==
    /\ pc = "chunk_text"
    /\ text \in Texts
    /\ max_chars \in 0..MaxCharsBound
    /\ chunks = <<>>
    /\ catalog = <<>>
    /\ list_fails = FALSE
    /\ IdleRun

InitModels ==
    /\ pc = "get_available_models"
    /\ catalog \in Catalogs
    /\ list_fails \in BOOLEAN
    /\ IdleChunk
    /\ IdleRun

(* main at line 339: the text has been read, the API key is set *)
Init ==
    /\ pc = "main"
    /\ catalog \in RunCatalogs
    /\ list_fails \in BOOLEAN
    /\ IdleChunk
    /\ available_models = <<>>
    /\ chunked \in BOOLEAN
    /\ total_chunks \in 1..MaxChunks
    /\ (~chunked => total_chunks = 1)
    /\ model_index = 0
    /\ i = 0
    /\ attempt = 0
    /\ chunk_entities = <<>>
    /\ cause = "none"
    /\ all_entities = <<>>
    /\ origin = <<>>
    /\ returned = <<>>
    /\ calls = <<>>
    /\ requests = <<>>
    /\ last_request = 0
    /\ parsed = <<>>
    /\ waits = <<>>
    /\ delays = <<>>
    /\ result = Pending
    /\ exc = "none"
    /\ csv \in {Absent, OldFile}
    /\ report = "none"

----------------------------------------------------------------------------
(* chunk_text and get_available_models applied to their inputs *)

ChunkText ==
    /\ pc = "chunk_text"
    /\ chunks' = chunk_text(text, max_chars)
    /\ pc' = "chunked"
    /\ UNCHANGED <<text, max_chars, catalogVars, runVars>>

GetAvailableModels ==
    /\ pc = "get_available_models"
    /\ available_models' = get_available_models(catalog, list_fails)
    /\ pc' = "listed"
    /\ UNCHANGED <<chunkVars, catalogVars, chunked, total_chunks, model_index, i,
                   attempt, chunk_entities, cause, all_entities, origin, returned,
                   calls, requests, last_request, parsed, waits, delays,
                   result, exc, csv, report>>

NextChunk == ChunkText
NextModels == GetAvailableModels

SpecChunk == InitChunk /\ [][NextChunk]_vars
SpecModels == InitModels /\ [][NextModels]_vars

----------------------------------------------------------------------------
(* extract_entities_with_gemini, lines 199-203: the model list *)

GetModels ==
    /\ pc = "main"
    /\ available_models' = get_available_models(catalog, list_fails)
    /\ IF available_models' = <<>>
       THEN /\ result' = None
            /\ pc' = "report"
            /\ UNCHANGED model_index
       ELSE /\ pc' = "select"
            /\ model_index' = 1
            /\ UNCHANGED result
    /\ UNCHANGED <<chunkVars, catalogVars, chunked, total_chunks, i, attempt,
                   chunk_entities, cause, all_entities, origin, returned, calls,
                   requests, last_request, parsed, waits, delays, exc,
                   csv, report>>

(* Entry of extract_entities_from_chunk(model, chunk c, c, total_chunks) *)
StartCall(c) ==
    /\ i' = c
    /\ attempt' = 0
    /\ requests' = <<>>
    /\ waits' = <<>>
    /\ calls' = Append(calls, <<model_index, c>>)
    /\ parsed' = <<>>
    /\ pc' = "call"

(* lines 211-237 / 256: the model handle is built, the pass starts with the
   first chunk *)
BeginPass ==
    /\ pc = "select"
    /\ all_entities' = <<>>
    /\ origin' = <<>>
    /\ returned' = <<>>
    /\ delays' = <<>>
    /\ StartCall(1)
    /\ UNCHANGED <<chunkVars, catalogVars, available_models, chunked, total_chunks,
                   model_index, chunk_entities, cause, 
                   last_request, result, exc, csv, report>>

(* lines 224-227 raise: the only statements of the try block at line 212
   that can, since extract_entities_from_chunk catches every Exception *)
ModelRaises ==
    /\ pc = "select"
    /\ \E e \in {"quota", "error"} : exc' = e
    /\ pc' = "except"
    /\ UNCHANGED <<chunkVars, catalogVars, available_models, chunked, total_chunks,
                   model_index, i, attempt, chunk_entities, cause, all_entities,
                   origin, returned, calls, requests, 
                   last_request, parsed, waits, delays, result, csv, report>>

(* lines 265-282: both kinds of exception move on to the next model, or
   return None when there is none (the 2-second sleep of line 271 is not
   recorded) *)
HandleModelError ==
    /\ pc = "except"
    /\ exc' = "none"
    /\ IF model_index < Len(available_models)
       THEN /\ model_index' = model_index + 1
            /\ pc' = "select"
            /\ UNCHANGED result
       ELSE /\ result' = None
            /\ pc' = "report"
            /\ UNCHANGED model_index
    /\ UNCHANGED <<chunkVars, catalogVars, available_models, chunked, total_chunks,
                   i, attempt, chunk_entities, cause, all_entities, origin,
                   returned, calls, requests, last_request, parsed,
                   waits, delays, csv, report>>

----------------------------------------------------------------------------
(* extract_entities_from_chunk: one iteration of the retry loop per action,
   one action per outcome of model.generate_content and of the parsing *)

(* line 137 *)
IssueRequest ==
    /\ pc = "call"
    /\ requests' = Append(requests, <<model_index, i>>)
    /\ last_request' = model_index

Return(value, why) ==
    /\ chunk_entities' = value
    /\ cause' = why
    /\ pc' = "returned"
    /\ UNCHANGED <<attempt, waits, exc>>

Retry(wait) ==
    /\ waits' = Append(waits, wait)
    /\ attempt' = attempt + 1
    /\ pc' = "call"
    /\ UNCHANGED <<chunk_entities, cause, exc>>

Raise(e) ==
    /\ exc' = e
    /\ cause' = "raised"
    /\ pc' = "except"
    /\ UNCHANGED <<chunk_entities, attempt, waits>>

callFrame == <<chunkVars, catalogVars, available_models, chunked, total_chunks,
               model_index, i, all_entities, origin, returned, calls, delays,
               result, csv, report>>

(* lines 140-148: finish_reason is not STOP *)
AttemptAbnormalFinish ==
    /\ IssueRequest
    /\ \E finish_reason \in AbnormalFinish : Return(<<>>, "finish_reason")
    /\ UNCHANGED <<callFrame, parsed>>

(* what lines 165-169 return for a parsed value *)
ParsedListResult(parsed_data) == parsed_data

ParsedObjectResultUnwrapped(parsed_data) == <<>>

ParsedObjectResult(parsed_data) ==
    IF Truthy(parsed_data) THEN <<parsed_data>> ELSE <<>>

(* lines 150-167: the cleaned text parses to a JSON array *)
AttemptParsedList ==
    /\ IssueRequest
    /\ \E parsed_data \in ParsedLists :
           /\ parsed' = parsed_data
           /\ Return(ParsedListResult(parsed_data), "parsed_list")
    /\ UNCHANGED callFrame

(* lines 150-169: the cleaned text parses to a single JSON value *)
AttemptParsedObject ==
    /\ IssueRequest
    /\ \E parsed_data \in ParsedObjects :
           /\ parsed' = <<parsed_data>>
           /\ Return(ParsedObjectResult(parsed_data), "parsed_object")
    /\ UNCHANGED callFrame

(* lines 171-175 and 192: json.JSONDecodeError *)
AttemptJSONErrorUnbounded ==
    /\ IssueRequest
    /\ Retry([kind |-> "json", secs |-> Pow2(attempt)])
    /\ UNCHANGED <<callFrame, parsed>>

AttemptJSONError ==
    /\ IssueRequest
    /\ IF attempt < max_retries - 1
       THEN Retry([kind |-> "json", secs |-> Pow2(attempt)])
       ELSE Return(<<>>, "json_retries_exhausted")
    /\ UNCHANGED <<callFrame, parsed>>

(* lines 176-187: an exception whose text holds "429" or "quota" *)
AttemptRateLimitRaises ==
    /\ IssueRequest
    /\ IF attempt < max_retries - 1
       THEN Retry([kind |-> "rate", secs |-> Pow2(attempt + 4)])
       ELSE Raise("quota")
    /\ UNCHANGED <<callFrame, parsed>>

AttemptRateLimitFlatWait ==
    /\ IssueRequest
    /\ IF attempt < max_retries - 1
       THEN Retry([kind |-> "rate", secs |-> Pow2(4)])
       ELSE Return(<<>>, "rate_limit_exhausted")
    /\ UNCHANGED <<callFrame, parsed>>

AttemptRateLimit ==
    /\ IssueRequest
    /\ IF attempt < max_retries - 1
       THEN Retry([kind |-> "rate", secs |-> Pow2(attempt + 4)])
       ELSE Return(<<>>, "rate_limit_exhausted")
    /\ UNCHANGED <<callFrame, parsed>>

(* lines 188-190: any other exception *)
AttemptOtherErrorRetries ==
    /\ IssueRequest
    /\ IF attempt < max_retries - 1
       THEN Retry([kind |-> "other", secs |-> Pow2(attempt)])
       ELSE Return(<<>>, "other_error")
    /\ UNCHANGED <<callFrame, parsed>>

AttemptOtherError ==
    /\ IssueRequest
    /\ Return(<<>>, "other_error")
    /\ UNCHANGED <<callFrame, parsed>>

----------------------------------------------------------------------------
(* extract_entities_with_gemini after a call returned *)

(* lines 238-239 *)
AccumulatePrepends(acc, entities) == IF entities # <<>> THEN entities \o acc ELSE acc

Accumulate(acc, entities) == IF entities # <<>> THEN acc \o entities ELSE acc

Tagged(entities) == [k \in 1..Len(entities) |-> <<model_index, i>>]

(* lines 246-253 and 257-263: what the pass ends in *)
PassOutcomeNoFallback(acc, index, models) ==
    IF acc # <<>> THEN "return_entities" ELSE "return_empty"

PassOutcomePreferLater(acc, index, models) ==
    IF index < Len(models) THEN "next_model"
    ELSE IF acc # <<>> THEN "return_entities"
    ELSE "return_empty"

PassOutcome(acc, index, models) ==
    IF acc # <<>> THEN "return_entities"
    ELSE IF index < Len(models) THEN "next_model"
    ELSE "return_empty"

EndPass(acc) ==
    LET outcome == PassOutcome(acc, model_index, available_models)
    IN  CASE outcome = "return_entities" ->
               /\ result' = ListValue(acc)
               /\ pc' = "report"
               /\ UNCHANGED model_index
          [] outcome = "next_model" ->
               /\ model_index' = model_index + 1
               /\ pc' = "select"
               /\ UNCHANGED result
          [] OTHER ->
               /\ result' = ListValue(<<>>)
               /\ pc' = "report"
               /\ UNCHANGED model_index

(* lines 238-244: a chunk that is not the last one; sleep 5 seconds and call
   extract_entities_from_chunk for the next chunk *)
AfterChunkStopsOnEmpty ==
    /\ pc = "returned"
    /\ chunked
    /\ i < total_chunks
    /\ all_entities' = Accumulate(all_entities, chunk_entities)
    /\ origin' = origin \o Tagged(chunk_entities)
    /\ returned' = Append(returned, [cause |-> cause, records |-> chunk_entities])
    /\ IF chunk_entities = <<>>
       THEN /\ EndPass(all_entities')
            /\ UNCHANGED <<i, attempt, calls, requests, waits, delays, parsed>>
       ELSE /\ delays' = Append(delays, InterChunkDelay)
            /\ StartCall(i + 1)
            /\ UNCHANGED <<model_index, result>>
    /\ UNCHANGED <<chunkVars, catalogVars, available_models, chunked, total_chunks,
                   chunk_entities, cause, last_request, exc, csv, report>>

AfterChunk ==
    /\ pc = "returned"
    /\ chunked
    /\ i < total_chunks
    /\ all_entities' = Accumulate(all_entities, chunk_entities)
    /\ origin' = origin \o Tagged(chunk_entities)
    /\ returned' = Append(returned, [cause |-> cause, records |-> chunk_entities])
    /\ delays' = Append(delays, InterChunkDelay)
    /\ StartCall(i + 1)
    /\ UNCHANGED <<chunkVars, catalogVars, available_models, chunked, total_chunks,
                   model_index, chunk_entities, cause, 
                   last_request, result, exc, csv, report>>

(* lines 238-253: the last chunk of the pass *)
AfterLastChunkSleeps ==
    /\ pc = "returned"
    /\ chunked
    /\ i = total_chunks
    /\ all_entities' = Accumulate(all_entities, chunk_entities)
    /\ origin' = origin \o Tagged(chunk_entities)
    /\ returned' = Append(returned, [cause |-> cause, records |-> chunk_entities])
    /\ delays' = Append(delays, InterChunkDelay)
    /\ EndPass(all_entities')
    /\ UNCHANGED <<chunkVars, catalogVars, available_models, chunked, total_chunks,
                   i, attempt, chunk_entities, cause, calls, requests,
                   last_request, parsed, waits, exc, csv, report>>

AfterLastChunk ==
    /\ pc = "returned"
    /\ chunked
    /\ i = total_chunks
    /\ all_entities' = Accumulate(all_entities, chunk_entities)
    /\ origin' = origin \o Tagged(chunk_entities)
    /\ returned' = Append(returned, [cause |-> cause, records |-> chunk_entities])
    /\ EndPass(all_entities')
    /\ UNCHANGED <<chunkVars, catalogVars, available_models, chunked, total_chunks,
                   i, attempt, chunk_entities, cause, calls, requests,
                   last_request, parsed, waits, delays, exc, csv, report>>

(* lines 255-263: the single-request branch; `entities` is kept in
   all_entities *)
AfterSingleRequest ==
    /\ pc = "returned"
    /\ ~chunked
    /\ all_entities' = chunk_entities
    /\ origin' = Tagged(chunk_entities)
    /\ returned' = Append(returned, [cause |-> cause, records |-> chunk_entities])
    /\ EndPass(all_entities')
    /\ UNCHANGED <<chunkVars, catalogVars, available_models, chunked, total_chunks,
                   i, attempt, chunk_entities, cause, calls, requests,
                   last_request, parsed, waits, delays, exc, csv, report>>

----------------------------------------------------------------------------
(* main, lines 341-357, with write_to_csv *)

(* lines 303-308: rows are written until an item has no .get (AttributeError,
   caught at line 310) *)
RECURSIVE Rows(_, _)
Rows(data, k) ==
    IF k > Len(data) \/ data[k].kind # "dict" THEN <<>>
    ELSE << <<Get(data[k], "pan"), Get(data[k], "relation"), Get(data[k], "entity")>> >>
         \o Rows(data, k + 1)

write_to_csv(data, file) ==
    IF data = <<>> THEN file
    ELSE [exists |-> TRUE, lines |-> <<Header>> \o Rows(data, 1)]

MainReport ==
    /\ pc = "report"
    /\ IF result = None
       THEN /\ report' = "Entity extraction failed"
            /\ UNCHANGED csv
       ELSE /\ report' = IF result.list = <<>>
                         THEN "No PAN-entity pairs found; Process completed"
                         ELSE "Process completed"
            /\ csv' = write_to_csv(result.list, csv)
    /\ pc' = "done"
    /\ UNCHANGED <<chunkVars, catalogVars, available_models, chunked, total_chunks,
                   model_index, i, attempt, chunk_entities, cause, all_entities,
                   origin, returned, calls, requests, 
                   last_request, parsed, waits, delays, result, exc>>

Next ==
    \/ GetModels
    \/ BeginPass
    \/ ModelRaises
    \/ HandleModelError
    \/ AttemptAbnormalFinish
    \/ AttemptParsedList
    \/ AttemptParsedObject
    \/ AttemptJSONError
    \/ AttemptRateLimit
    \/ AttemptOtherError
    \/ AfterChunk
    \/ AfterLastChunk
    \/ AfterSingleRequest
    \/ MainReport

Spec == Init /\ [][Next]_vars

(* The program is one sequential control flow and every sleep is finite: a
   step that can be taken is eventually taken. *)
FairSpec == Spec /\ WF_vars(Next)

----------------------------------------------------------------------------
(* Properties of chunk_text (SpecChunk) *)

(* A chunk without the separator the chunker appended after its last paragraph *)
StripSep(chunk) == SubSeq(chunk, 1, Len(chunk) - Len(Sep))

EndsWithSep(chunk) ==
    Len(chunk) >= Len(Sep) /\ SubSeq(chunk, Len(chunk) - Len(Sep) + 1, Len(chunk)) = Sep

RECURSIVE ParagraphsOf(_, _)
ParagraphsOf(chs, k) ==
    IF k > Len(chs) THEN <<>>
    ELSE Split(StripSep(chs[k])) \o ParagraphsOf(chs, k + 1)

RECURSIVE Concat(_, _)
Concat(chs, k) == IF k > Len(chs) THEN <<>> ELSE chs[k] \o Concat(chs, k + 1)

(* C6: for any text and any max_chars, chunk_text returns a non-empty list of
   non-empty chunks; the paragraphs read from the chunks in order (each chunk
   without the separator appended after its last paragraph, split on the
   blank-line separator) are the paragraphs of the input, and the chunks
   concatenated are the input followed by one separator. *)
C6_ParagraphsPreserved ==
    pc = "chunked" =>
        /\ chunks # <<>>
        /\ \A k \in 1..Len(chunks) : chunks[k] # <<>> /\ EndsWithSep(chunks[k])
        /\ ParagraphsOf(chunks, 1) = Split(text)
        /\ Concat(chunks, 1) = text \o Sep

C6_Witness ==
    /\ pc = "chunked"
    /\ Len(Split(text)) >= 3
    /\ Len(chunks) >= 2
    /\ \E k \in 1..Len(chunks) : Len(Split(StripSep(chunks[k]))) >= 2

(* C7: a text shorter than max_chars comes back as exactly one chunk, the
   text followed by one separator, whatever its paragraphs. *)
C7_ShortTextOneChunk ==
    (pc = "chunked" /\ Len(text) < max_chars) =>
        /\ Len(chunks) = 1
        /\ chunks[1] = text \o Sep

C7_Witness ==
    /\ pc = "chunked"
    /\ Len(text) < max_chars
    /\ Len(Split(text)) >= 3
    /\ Len(chunks) = 1

(* C8: every chunk that holds two or more paragraphs has at most max_chars
   characters, the separators appended by the chunker included. *)
C8_MultiParagraphChunkWithinBound ==
    pc = "chunked" =>
        \A k \in 1..Len(chunks) :
            Len(Split(StripSep(chunks[k]))) >= 2 => Len(chunks[k]) <= max_chars

----------------------------------------------------------------------------
(* Properties of get_available_models (SpecModels) *)

Matches(name) == \E p \in 1..Len(preferred_order) : Contains(preferred_order[p], name)

(* rank of the earliest preferred substring the name contains, 0 if none *)
EarliestMatch(name) ==
    IF Matches(name)
    THEN CHOOSE p \in 1..Len(preferred_order) :
            /\ Contains(preferred_order[p], name)
            /\ \A q \in 1..(p - 1) : ~Contains(preferred_order[q], name)
    ELSE 0

Generating(name) == \E j \in 1..Len(catalog) : catalog[j].name = name /\ catalog[j].gen

(* catalog position of the first generating entry with this name *)
CatalogPos(name) ==
    CHOOSE j \in 1..Len(catalog) :
        /\ catalog[j].name = name /\ catalog[j].gen
        /\ \A h \in 1..(j - 1) : ~(catalog[h].name = name /\ catalog[h].gen)

(* C9: get_available_models returns only models that support content
   generation, each of them once, every model containing a preferred
   substring before every model containing none, and in catalog order among
   the models containing none and among those with the same earliest
   matching preferred substring. *)
C9_ModelsFilteredAndOrdered ==
    (pc = "listed" /\ ~list_fails) =>
        LET r == available_models
        IN  /\ \A k \in 1..Len(r) : Generating(r[k])
            /\ \A j \in 1..Len(catalog) :
                   catalog[j].gen =>
                       Cardinality({k \in 1..Len(r) : r[k] = catalog[j].name}) = 1
            /\ \A a, b \in 1..Len(r) :
                   (a < b /\ Matches(r[b])) => Matches(r[a])
            /\ \A a, b \in 1..Len(r) :
                   (a < b /\ Generating(r[a]) /\ Generating(r[b])
                          /\ EarliestMatch(r[a]) = EarliestMatch(r[b]))
                       => CatalogPos(r[a]) < CatalogPos(r[b])

C9_Witness ==
    /\ pc = "listed"
    /\ ~list_fails
    /\ Len(catalog) = 3
    /\ \E a, b, c \in 1..3 :
           /\ a < b
           /\ catalog[a].gen /\ ~Matches(catalog[a].name)
           /\ catalog[b].gen /\ Matches(catalog[b].name)
           /\ ~catalog[c].gen
    /\ Len(available_models) = 2

----------------------------------------------------------------------------
(* Properties of the run (Spec) *)

Finished == pc \in {"report", "done"}

(* the pass of the current model is over and `returned` holds its chunks *)
PassOver == Len(returned) = total_chunks /\ pc \in {"select", "report", "done"}

RateLimitedInPass ==
    \E k \in 1..Len(returned) : returned[k].cause = "rate_limit_exhausted"

RecordsInPass == \E k \in 1..Len(returned) : returned[k].records # <<>>

(* C1: when a chunk of the pass used up its max_retries attempts on
   rate-limit errors and a model candidate remains, the orchestrator moves
   on to the next candidate and does not finish the run with the current
   model, whatever the number of chunks and whatever the other chunks
   returned. *)
C1_RateLimitAlwaysAdvances ==
    ~(Finished /\ PassOver /\ RateLimitedInPass /\ model_index < Len(available_models))

OtherEmptyCauses == {"other_error", "finish_reason", "parsed_list"}

(* C2: the value returned after the retries are used up on rate-limit errors
   differs from the value returned for a non-retryable error, for a
   truncated or safety-filtered completion, and for a parsed empty array. *)
C2_ExhaustionValueDistinct ==
    (pc = "returned" /\ cause \in OtherEmptyCauses) =>
        \A k \in 1..Len(returned) :
            returned[k].cause = "rate_limit_exhausted"
                => returned[k].records # chunk_entities

(* every model was attempted on every chunk and every call returned no record *)
AllEmptyForAllModels ==
    /\ Finished
    /\ available_models # <<>>
    /\ Len(calls) = Len(available_models) * total_chunks
    /\ PassOver
    /\ ~RecordsInPass

(* C3: if every chunk yields an empty record set for every model candidate,
   the run ends in the failure outcome (None, reported as 'extraction
   failed'), not in the outcome of a run that succeeded with zero matches. *)
C3_AllEmptyIsFailure ==
    AllEmptyForAllModels =>
        /\ result = None
        /\ pc = "done" => report = "Entity extraction failed"

PassRecords == Accumulate(all_entities, chunk_entities)

(* C4: a returned non-empty record list is the accumulation of exactly one
   model's pass, the model the last generation request went to; a pass that
   accumulated a record ends the run with that list, so the model is the
   first one in selector order to accumulate any; nothing is requested once
   the run has its result. *)
C4_ResultFromFirstProductiveModel ==
    /\ [](  (Finished /\ result.tag = "list" /\ result.list # <<>>) =>
                /\ result.list = all_entities
                /\ Len(origin) = Len(all_entities)
                /\ \A k \in 1..Len(origin) : origin[k][1] = model_index
                /\ last_request = model_index
                /\ \A k \in 1..Len(calls) : calls[k][1] <= model_index )
    /\ [][ (pc = "returned" /\ i = total_chunks /\ PassRecords # <<>>) =>
               (pc' = "report" /\ result' = ListValue(PassRecords)) ]_vars
    /\ [][ Finished => (requests' = requests /\ calls' = calls) ]_vars

C4_Witness ==
    /\ pc = "done"
    /\ result.tag = "list"
    /\ result.list # <<>>
    /\ model_index = 2
    /\ total_chunks >= 2
    /\ Len(calls) = 2 * total_chunks

(* C5: when the completion parses as JSON, every element of the returned
   record set has a present, non-empty pan and a present, non-empty entity. *)
C5_NoRecordWithoutPanOrEntity ==
    (pc = "returned" /\ cause \in {"parsed_list", "parsed_object"}) =>
        \A k \in 1..Len(chunk_entities) :
            /\ chunk_entities[k].kind = "dict"
            /\ Get(chunk_entities[k], "pan") # ""
            /\ Get(chunk_entities[k], "entity") # ""

Items == {RecA, RecB, RecEmptyPan, RecNoEntity, EmptyDict, Seven}

(* C10: one call of extract_entities_from_chunk issues between 1 and
   max_retries generation requests, all for the chunk and model of the call;
   it never raises into the orchestrator's handler and returns a list; after
   a JSON parse failure the loop issues another request unless the failure
   was on the last allowed attempt. *)
C10_BoundedRequestsNoRaise ==
    /\ pc \in {"call", "returned"} =>
           \A k \in 1..Len(requests) : requests[k] = <<model_index, i>>
    /\ Len(requests) <= max_retries
    /\ pc = "call" =>
           /\ attempt < max_retries
           /\ Len(requests) = attempt
           /\ Len(waits) = attempt
    /\ pc = "returned" =>
           /\ Len(requests) >= 1
           /\ chunk_entities \in Seq(Items)
           /\ calls[Len(calls)] = <<model_index, i>>
           /\ (cause = "json_retries_exhausted" => Len(requests) = max_retries)
    /\ cause # "raised"
    /\ pc = "except" => \A k \in 1..Len(calls) : calls[k][1] # model_index

C10_Witness ==
    /\ pc = "returned"
    /\ Len(requests) = max_retries
    /\ \E k \in 1..Len(waits) : waits[k].kind = "json"
    /\ \E k \in 1..Len(waits) : waits[k].kind = "rate"
    /\ cause = "parsed_list"

RateWaits == SelectSeq(waits, LAMBDA w : w.kind = "rate")

(* C11: within one call the wait after the first rate-limit error is 16
   seconds and each later rate-limit wait is twice the previous rate-limit
   wait, for any interleaving of JSON parse failures and rate-limit errors. *)
C11_RateWaitsStartAt16AndDouble ==
    /\ RateWaits # <<>> => RateWaits[1].secs = 16
    /\ \A k \in 2..Len(RateWaits) : RateWaits[k].secs = 2 * RateWaits[k - 1].secs

(* C11 amended: within one call the wait that follows a rate-limit error on
   the n-th attempt (n < max_retries) is 2^(n+3) seconds, 16 after the first
   attempt and 32 after the second, whatever the earlier attempts ended in;
   so the rate-limit waits are 16 then 32 when no JSON parse failure
   precedes them, and each wait follows the request of its attempt. *)
C11_RateWaitByAttempt ==
    /\ \A k \in 1..Len(waits) :
           waits[k].kind = "rate" => waits[k].secs = Pow2(k + 3)
    /\ (\A k \in 1..Len(waits) : waits[k].kind = "rate") =>
           /\ RateWaits # <<>> => RateWaits[1].secs = 16
           /\ \A k \in 2..Len(RateWaits) : RateWaits[k].secs = 2 * RateWaits[k - 1].secs
    /\ pc = "call" => Len(waits) = Len(requests)

C11_Witness ==
    /\ pc = "call"
    /\ Len(waits) = 2
    /\ waits[1].kind = "json"
    /\ waits[2].kind = "rate"
    /\ waits[2].secs = 32

NoGeneratingModel == \A j \in 1..Len(catalog) : ~catalog[j].gen

(* C12: if the catalog query fails or lists no content-generation model,
   get_available_models returns the empty list, extract_entities_with_gemini
   issues no generation request and returns None, and main reports the
   failure and leaves the CSV file as it was. *)
C12_NoModelsIsTerminal ==
    /\ []( (pc # "main" /\ (list_fails \/ NoGeneratingModel)) =>
               /\ available_models = <<>>
               /\ pc \in {"report", "done"}
               /\ calls = <<>>
               /\ requests = <<>>
               /\ last_request = 0
               /\ result = None
               /\ pc = "done" => report = "Entity extraction failed" )
    /\ [][ (pc = "report" /\ (list_fails \/ NoGeneratingModel)) => csv' = csv ]_vars

C12_Witness ==
    /\ pc = "done"
    /\ list_fails
    /\ ~NoGeneratingModel
    /\ result = None
    /\ csv = OldFile

RowOf(item) == <<Get(item, "pan"), Get(item, "relation"), Get(item, "entity")>>

(* C13: write_to_csv given the empty sequence leaves the output file as it
   was; given the N >= 1 records extract_entities_with_gemini returned, it
   writes exactly N+1 lines, the header and then one row per record in
   sequence order, a missing field written as the empty string. *)
C13_HeaderAndOneRowPerRecord ==
    /\ [][ (pc = "report" /\ result.tag = "list" /\ result.list = <<>>) => csv' = csv ]_vars
    /\ []( (pc = "done" /\ result.tag = "list" /\ result.list # <<>>) =>
               /\ csv.exists
               /\ Len(csv.lines) = Len(result.list) + 1
               /\ csv.lines[1] = Header
               /\ \A k \in 1..Len(result.list) : csv.lines[k + 1] = RowOf(result.list[k]) )

FailureCauses == {"finish_reason", "json_retries_exhausted", "rate_limit_exhausted",
                  "other_error"}

(* C14: in a model's pass every chunk is handed to extract_entities_from_chunk
   exactly once and in chunk order; a chunk that fails contributes no record
   and the following chunks are still processed, so a pass always reaches
   its last chunk. *)
C14_EveryChunkOnceInOrder ==
    /\ \A k \in 1..Len(calls) :
           /\ calls[k][2] \in 1..total_chunks
           /\ IF k = 1 THEN calls[k][2] = 1
              ELSE IF calls[k][1] = calls[k - 1][1]
                   THEN calls[k][2] = calls[k - 1][2] + 1
                   ELSE /\ calls[k][1] > calls[k - 1][1]
                        /\ calls[k][2] = 1
                        /\ calls[k - 1][2] = total_chunks
    /\ pc \in {"call", "returned"} =>
           /\ calls[Len(calls)] = <<model_index, i>>
           /\ Len(returned) = i - 1
    /\ (pc \in {"select", "except", "report", "done"} /\ calls # <<>>) =>
           /\ calls[Len(calls)][2] = total_chunks
           /\ Len(returned) = total_chunks
    /\ \A k \in 1..Len(returned) :
           returned[k].cause \in FailureCauses => returned[k].records = <<>>

C14_Witness ==
    /\ pc = "report"
    /\ total_chunks >= 2
    /\ Len(returned) = total_chunks
    /\ returned[1].cause \in FailureCauses
    /\ returned[total_chunks].records # <<>>
    /\ Len(calls) = total_chunks

(* C15: when a pass ends with no record accumulated and a model candidate
   remains, the orchestrator goes to the candidate that follows immediately
   in selector order, and its pass starts again with the first chunk; the
   model index only ever grows by one, so no model is attempted twice and
   none is skipped. *)
C15_EmptyPassMovesToNextModel ==
    /\ [][ (pc = "returned" /\ i = total_chunks /\ PassRecords = <<>>
                /\ model_index < Len(available_models))
           => (pc' = "select" /\ model_index' = model_index + 1 /\ result' = Pending) ]_vars
    /\ [][ (pc = "select" /\ pc' = "call")
           => /\ model_index' = model_index
              /\ i' = 1
              /\ all_entities' = <<>>
              /\ \A k \in 1..Len(calls) : calls[k][1] < model_index
              /\ calls' = Append(calls, <<model_index, 1>>) ]_vars
    /\ [][ model_index' \in {model_index, model_index + 1} ]_vars
    /\ [](model_index <= Len(available_models))

C15_Witness ==
    /\ pc = "call"
    /\ model_index = 2
    /\ i = 1
    /\ total_chunks >= 2
    /\ Len(calls) = total_chunks + 1
    /\ Len(returned) = 0
    /\ exc = "none"

(* C16: in a pass the chunks of one model are separated by exactly one
   5-second sleep each, and no inter-chunk sleep follows the last chunk: a
   finished pass over k chunks holds exactly k-1 of them. *)
C16_OneDelayBetweenChunks ==
    /\ \A k \in 1..Len(delays) : delays[k] = 5
    /\ pc \in {"call", "returned"} => Len(delays) = i - 1
    /\ PassOver => Len(delays) = total_chunks - 1

C16_Witness ==
    /\ pc = "report"
    /\ chunked
    /\ total_chunks >= 2
    /\ PassOver
    /\ Len(delays) = total_chunks - 1

(* C17: a completion whose finish_reason is not STOP and an error that is
   neither a JSON parse failure nor a rate-limit error end the call at once,
   at whichever attempt: the empty list is returned, the only requests that
   were followed by a backoff wait and another request are those that ended
   in a JSON parse failure or a rate-limit error. *)
C17_NonRetryableEndsCall ==
    /\ \A k \in 1..Len(waits) : waits[k].kind \in {"json", "rate"}
    /\ pc = "call" => Len(waits) = Len(requests)
    /\ (pc = "returned" /\ cause \in {"finish_reason", "other_error"}) =>
           /\ chunk_entities = <<>>
           /\ Len(waits) = Len(requests) - 1

C17_Witness ==
    /\ pc = "returned"
    /\ cause = "other_error"
    /\ Len(requests) = max_retries
    /\ Len(waits) = max_retries - 1

(* C18: when the cleaned text parses as JSON, the parsed value is returned
   unchanged if it is a list, and a one-element list holding the parsed value
   is returned whenever it is a single object, for every such object. *)
C18_ListUnchangedObjectWrapped ==
    /\ (pc = "returned" /\ cause = "parsed_list") => chunk_entities = parsed
    /\ (pc = "returned" /\ cause = "parsed_object") => chunk_entities = parsed

(* C18 amended: a parsed list is returned unchanged (the empty list
   included); a parsed single object is returned as a one-element list
   holding it whenever the object is not empty, and the empty object {} is
   returned as the empty list. *)
C18_ListUnchangedNonEmptyObjectWrapped ==
    /\ (pc = "returned" /\ cause = "parsed_list") => chunk_entities = parsed
    /\ (pc = "returned" /\ cause = "parsed_object") =>
           /\ Len(parsed) = 1
           /\ chunk_entities = IF parsed[1] = EmptyDict THEN <<>> ELSE parsed

C18_Witness ==
    /\ pc = "returned"
    /\ cause = "parsed_object"
    /\ parsed = <<RecA>>
    /\ chunk_entities = <<RecA>>

RECURSIVE JoinRecords(_, _)
JoinRecords(ret, k) ==
    IF k > Len(ret) THEN <<>> ELSE ret[k].records \o JoinRecords(ret, k + 1)

(* C19: the list a run returns is the concatenation, in chunk order, of the
   lists returned for the chunks of the accepted model's pass, each in the
   order the model gave; during a pass all_entities is the concatenation of
   what the chunks of that pass returned so far, nothing from another model. *)
C19_ResultIsConcatenationInChunkOrder ==
    /\ (Finished /\ result.tag = "list") =>
           /\ Len(returned) = total_chunks
           /\ result.list = JoinRecords(returned, 1)
    /\ pc \in {"call", "returned"} => all_entities = JoinRecords(returned, 1)
    /\ \A k \in 1..Len(origin) : origin[k][1] = model_index

C19_Witness ==
    /\ Finished
    /\ result.tag = "list"
    /\ chunked
    /\ total_chunks >= 2
    /\ Len(returned) = total_chunks
    /\ returned[1].records # <<>>
    /\ returned[2].records # <<>>
    /\ returned[1].records # returned[2].records
    /\ Len(returned[1].records) >= 2

(* C20: for any model list, chunk list and provider outcomes,
   extract_entities_with_gemini terminates without raising: main reaches its
   end, the result is None or a list, at most |models| x |chunks| calls of
   extract_entities_from_chunk are made and each of them issues at most
   max_retries generation requests (every request belongs to a call), so at
   most |models| x |chunks| x max_retries requests are issued. *)
C20_TerminatesWithinBudget ==
    /\ <>(pc = "done")
    /\ [](Len(calls) <= Len(available_models) * total_chunks)
    /\ [](Len(requests) <= max_retries)
    /\ [](pc \in {"call", "returned"} =>
              \A k \in 1..Len(requests) : requests[k] = calls[Len(calls)])
    /\ [](Finished => (result = None \/ (result.tag = "list" /\ result.list \in Seq(Items))))
    /\ [](cause # "raised")
    /\ [][ Finished => (requests' = requests /\ calls' = calls /\ result' = result) ]_vars

C20_Witness ==
    /\ pc = "done"
    /\ Len(available_models) = MaxRunModels
    /\ total_chunks = MaxChunks
    /\ Len(calls) = Len(available_models) * total_chunks
    /\ Len(requests) = max_retries
    /\ result = ListValue(<<>>)

====
